---- MODULE Spec2Model ----
\* A model of app/interface.py: the session-scoped connection cache
\* (get_connection), the per-backend dispatch of index_documents and
\* search_documents, and the Streamlit script that drives them.
\*
\* The four backend services and the embedding model are libraries outside the
\* repository.  They are modelled by what the calls in interface.py rely on:
\* a store keeps what a write call hands it, a search returns the `limit`
\* nearest records (the order among equally distant records is the backend's
\* choice), and any backend call may raise.
EXTENDS Integers, Sequences, FiniteSets, TLC

\* ---------------------------------------------------------------- bounds
MaxBatch == 2       \* longest document batch handed to index_documents
MaxRecords == 2     \* records held by all stores together
MaxTopK == 2        \* largest top_k handed to search_documents
MaxAttempts == 2    \* client constructions per session and backend

Sessions == {"s1", "s2"}
DATABASE_NAMES == {"Milvus", "Pinecone", "MongoDB", "QDrant"}

\* (title, text) pairs; two documents share a text under different titles.
Documents == {<<"a.txt", "cats">>, <<"b.txt", "cats">>, <<"c.txt", "dogs">>}
Queries == {"cats", "pets"}

Min(a, b) == IF a <= b THEN a ELSE b
Range(f) == {f[i] : i \in DOMAIN f}
SeqsUpTo(S, n) == UNION {[1..k -> S] : k \in 0..n}

\* ------------------------------------------------------------ embedding
\* TextEmbedding().embed: one vector per text, in input order.  A vector is
\* one integer, the distance between two vectors their absolute difference.
Embed(text) ==
    CASE text = "cats" -> 1
      [] text = "pets" -> 2
      [] text = "dogs" -> 3
      [] OTHER -> 9

EmbedAll(texts) == [i \in 1..Len(texts) |-> Embed(texts[i])]

Dist(u, v) == IF u >= v THEN u - v ELSE v - u

\* ------------------------------------------------------------ state
VARIABLES
    connections,    \* st.session_state.connections of each session
    docs,           \* st.session_state.docs of each session
    db_choice,      \* the backend selected in each session's selectbox
    stores,         \* the records each backend store holds
    pineconeIndex,  \* whether the Pinecone index exists on the service
    ctorCalls,      \* client constructor calls, per session and backend
    createCalls,    \* create_collection / create_index_for_model calls
    idgen,          \* identifiers handed out by ObjectId(), uuid4(), MongoDB
    indexed,        \* history: the documents of the index calls that returned
    last            \* the last adapter call and what it did

vars == <<connections, docs, db_choice, stores, pineconeIndex, ctorCalls,
          createCalls, idgen, indexed, last>>

\* A client object: its class, the session that constructed it and which of
\* that session's constructions it is (object identity).
NoHandle == [kind |-> "none", owner |-> "none", serial |-> 0]
NewClient(s, b, n) == [kind |-> b, owner |-> s, serial |-> n]

\* The store a client talks to.  MilvusClient("milvus.db") opens one local
\* file, Pinecone(api_key) and MongoClient(uri) reach one remote service named
\* by the settings, QdrantClient(":memory:") owns a store of its own.
SharedStore(kind) == [kind |-> kind, owner |-> "shared", serial |-> 0]
\* (variant: a QDrant client that reached one store shared by all clients)
QDrantSharedStore(client) == SharedStore(client.kind)
StoreOf(client) ==
    IF client.kind = "QDrant" THEN client ELSE SharedStore(client.kind)

StoreNames ==
    {SharedStore(k) : k \in DATABASE_NAMES}
        \cup {NewClient(s, "QDrant", n) : s \in Sessions, n \in 1..MaxAttempts}

NoCall ==
    [op |-> "none", s |-> "none", db |-> "none", handle |-> NoHandle,
     documents |-> <<>>, query |-> "", top_k |-> 0, raised |-> FALSE,
     fromCache |-> FALSE, writes |-> <<>>, hits |-> <<>>, result |-> <<>>]

Init ==
    /\ connections = [s \in Sessions |-> [b \in DATABASE_NAMES |-> NoHandle]]
    /\ docs = [s \in Sessions |-> <<>>]
    /\ db_choice = [s \in Sessions |-> "Milvus"]
    /\ stores = [k \in StoreNames |-> <<>>]
    /\ pineconeIndex = FALSE    \* created by the first setup that finds none
    /\ ctorCalls = [s \in Sessions |-> [b \in DATABASE_NAMES |-> 0]]
    /\ createCalls = [s \in Sessions |-> [b \in DATABASE_NAMES |-> 0]]
    /\ idgen = [oid |-> 0, uuid |-> 0, mongo |-> 0]
    /\ indexed = [k \in StoreNames |-> {}]
    /\ last = NoCall

\* ------------------------------------------------------- get_connection
\* Where the setup of a backend can raise: "none" is a setup that succeeds.
FailPoints(b) ==
    CASE b = "Milvus" -> {"none", "ctor", "create"}
      [] b = "Pinecone" -> {"none", "ctor", "has_index", "create"}
      [] OTHER -> {"none", "ctor"}

\* `database_name in connections`
\* (variant: a lookup that never finds the entry)
CachedNever(conns, b) == FALSE
Cached(conns, b) == conns[b] # NoHandle

\* connections[database_name] = client, reached only when no call before it
\* raised
\* (variant: the client stored before its setup has run)
StoreAlways(conns, b, client, fail) == [conns EXCEPT ![b] = client]
StoreClient(conns, b, client, fail) ==
    IF fail = "none" THEN [conns EXCEPT ![b] = client] ELSE conns

\* Whether the setup of b calls create_collection / create_index_for_model,
\* given that the constructor (and has_index) returned.
CallsCreate(b, indexExists) ==
    \/ b = "Milvus"
    \/ b = "Pinecone" /\ ~indexExists

\* Whether this run goes as far as a get_connection(b) whose setup raises at
\* `fail` (the guard keeps the constructions of a run bounded).
GetConnectionEnabled(s, b, fail) ==
    IF Cached(connections[s], b)
    THEN fail = "none"
    ELSE /\ ctorCalls[s][b] < MaxAttempts
         /\ fail \in FailPoints(b)
         /\ fail = "create" => CallsCreate(b, pineconeIndex)

\* One call get_connection(b) in session s; `fail` is where the setup raises.
\* The result names what the call returns and what it leaves behind.
GetConnection(s, b, fail) ==
    LET conns == connections[s] IN
    IF Cached(conns, b)
    THEN [handle |-> conns[b], raised |-> FALSE, fromCache |-> TRUE,
          conns |-> conns, ctor |-> 0, create |-> 0,
          index |-> pineconeIndex]
    ELSE LET client == NewClient(s, b, ctorCalls[s][b] + 1)
             creates == fail \notin {"ctor", "has_index"}
                        /\ CallsCreate(b, pineconeIndex)
         IN [handle |-> IF fail = "none" THEN client ELSE NoHandle,
             raised |-> fail # "none", fromCache |-> FALSE,
             conns |-> StoreClient(conns, b, client, fail),
             ctor |-> 1, create |-> IF creates THEN 1 ELSE 0,
             index |-> (pineconeIndex
                        \/ (b = "Pinecone" /\ creates /\ fail = "none"))]

\* The state a get_connection call with result r leaves behind.
Connect(s, b, r) ==
    /\ connections' = [connections EXCEPT ![s] = r.conns]
    /\ ctorCalls' = [ctorCalls EXCEPT ![s][b] = @ + r.ctor]
    /\ createCalls' = [createCalls EXCEPT ![s][b] = @ + r.create]
    /\ pineconeIndex' = r.index

ConnectionCall(s, b, r) ==
    [NoCall EXCEPT !.op = "get_connection", !.s = s, !.db = b,
                   !.raised = r.raised, !.fromCache = r.fromCache,
                   !.handle = r.handle]

GetConnectionCall(s, b, fail) ==
    /\ GetConnectionEnabled(s, b, fail)
    /\ Connect(s, b, GetConnection(s, b, fail))
    /\ last' = ConnectionCall(s, b, GetConnection(s, b, fail))
    /\ UNCHANGED <<docs, db_choice, stores, idgen, indexed>>

\* ------------------------------------------------------ index_documents
TitlesOf(documents) == [i \in 1..Len(documents) |-> documents[i][1]]
TextsOf(documents) == [i \in 1..Len(documents) |-> documents[i][2]]

\* The list handed to MilvusClient.insert: ids are positions in the batch.
\* (variant: vectors paired with the documents in reverse)
MilvusDataReversed(documents) ==
    LET vectors == EmbedAll(TextsOf(documents)) IN
    [i \in 1..Len(vectors) |->
        [id |-> i - 1, vector |-> vectors[Len(vectors) + 1 - i],
         text |-> documents[i][2], title |-> documents[i][1]]]
MilvusData(documents) ==
    LET vectors == EmbedAll(TextsOf(documents)) IN
    [i \in 1..Len(vectors) |->
        [id |-> i - 1, vector |-> vectors[i],
         text |-> documents[i][2], title |-> documents[i][1]]]

\* The list handed to Index.upsert_records: ids are fresh ObjectId strings.
\* (variant: doc[0] and doc[1] taken for each other)
PineconeRecordsSwapped(documents, oid) ==
    [i \in 1..Len(documents) |->
        [id |-> <<"oid", oid + i>>, title |-> documents[i][2],
         text |-> documents[i][1]]]
PineconeRecords(documents, oid) ==
    [i \in 1..Len(documents) |->
        [id |-> <<"oid", oid + i>>, title |-> documents[i][1],
         text |-> documents[i][2]]]

\* The list handed to Collection.insert_many: zip(embeddings, documents).
MongoDocs(documents) ==
    LET embeddings == EmbedAll(TextsOf(documents)) IN
    [i \in 1..Min(Len(embeddings), Len(documents)) |->
        [text |-> documents[i][2], title |-> documents[i][1],
         embedding |-> embeddings[i]]]

\* The keyword arguments of QdrantClient.add: three parallel lists.
QDrantArgs(documents, uuid) ==
    [documents |-> TextsOf(documents),
     metadata |-> [i \in 1..Len(documents) |-> [title |-> documents[i][1]]],
     ids |-> [i \in 1..Len(documents) |-> <<"uuid", uuid + i>>]]

\* What a store keeps of a write call.  Pinecone and QDrant embed the text
\* themselves, MongoDB assigns the _id, Milvus inserts without looking for the
\* primary key among the records it holds.  `writer` is the session that made
\* the call (kept for the statements about sessions, unknown to the backend).
Ingest(kind, payload, writer, mongoId) ==
    CASE kind = "Milvus" ->
           [i \in 1..Len(payload) |->
               [id |-> payload[i].id, title |-> payload[i].title,
                text |-> payload[i].text, vector |-> payload[i].vector,
                writer |-> writer]]
      [] kind = "Pinecone" ->
           [i \in 1..Len(payload) |->
               [id |-> payload[i].id, title |-> payload[i].title,
                text |-> payload[i].text, vector |-> Embed(payload[i].text),
                writer |-> writer]]
      [] kind = "MongoDB" ->
           [i \in 1..Len(payload) |->
               [id |-> <<"mongo", mongoId + i>>, title |-> payload[i].title,
                text |-> payload[i].text, vector |-> payload[i].embedding,
                writer |-> writer]]
      [] kind = "QDrant" ->
           [i \in 1..Len(payload.documents) |->
               [id |-> payload.ids[i], title |-> payload.metadata[i].title,
                text |-> payload.documents[i],
                vector |-> Embed(payload.documents[i]), writer |-> writer]]

\* The argument of the one write call index_documents makes on `kind`.
Payload(kind, documents) ==
    CASE kind = "Milvus" -> MilvusData(documents)
      [] kind = "Pinecone" -> PineconeRecords(documents, idgen.oid)
      [] kind = "MongoDB" -> MongoDocs(documents)
      [] kind = "QDrant" -> QDrantArgs(documents, idgen.uuid)

\* index_documents(connection, documents) called by session s; `ok` is whether
\* the backend's write call returns rather than raises.
IndexDocuments(s, connection, documents, ok) ==
    LET kind == connection.kind
        payload == Payload(kind, documents)
        n == Len(documents)
        k == StoreOf(connection)
    IN /\ kind \in DATABASE_NAMES
       /\ idgen' = [oid |-> idgen.oid + (IF kind = "Pinecone" THEN n ELSE 0),
                    uuid |-> idgen.uuid + (IF kind = "QDrant" THEN n ELSE 0),
                    mongo |-> idgen.mongo
                              + (IF kind = "MongoDB" /\ ok THEN n ELSE 0)]
       /\ stores' = IF ok
                    THEN [stores EXCEPT
                            ![k] = @ \o Ingest(kind, payload, s, idgen.mongo)]
                    ELSE stores
       /\ indexed' = IF ok
                     THEN [indexed EXCEPT ![k] = @ \cup Range(documents)]
                     ELSE indexed
       /\ last' = [NoCall EXCEPT
                     !.op = "index", !.s = s, !.db = kind,
                     !.handle = connection, !.documents = documents,
                     !.raised = ~ok, !.writes = <<payload>>]

\* The number of records in all stores.
TotalRecords ==
    Cardinality(UNION {{k} \X (1..Len(stores[k])) : k \in StoreNames})

IndexCall(s, b, documents, ok) ==
    /\ connections[s][b] # NoHandle
    /\ TotalRecords + Len(documents) <= MaxRecords
    /\ b = "Pinecone" => idgen.oid + Len(documents) <= MaxRecords
    /\ b = "QDrant" => idgen.uuid + Len(documents) <= MaxRecords
    /\ IndexDocuments(s, connections[s][b], documents, ok)
    /\ UNCHANGED <<connections, docs, db_choice, pineconeIndex, ctorCalls,
                   createCalls>>

\* ----------------------------------------------------- search_documents
\* limit=top_k / "top_k": top_k: the adapter hands top_k on unchanged.
\* (variant: the default of 3 handed on whatever top_k is)
SearchLimitDefault(top_k) == 3
SearchLimit(top_k) == top_k

\* The backend's answer to a nearest-neighbour query: positions of the
\* `limit` records nearest to qv, nearest first.  Which of several equally
\* distant records comes first, or is returned at all, is the backend's choice.
Rankings(entries, qv, limit) ==
    LET n == Min(limit, Len(entries)) IN
    {idx \in [1..n -> 1..Len(entries)] :
        /\ \A i, j \in 1..n :
              i < j => /\ idx[i] # idx[j]
                       /\ Dist(qv, entries[idx[i]].vector)
                            <= Dist(qv, entries[idx[j]].vector)
        /\ \A k \in (1..Len(entries)) \ Range(idx) :
              \A i \in 1..n :
                  Dist(qv, entries[idx[i]].vector) <= Dist(qv, entries[k].vector)}

\* Milvus reports a distance, the other three a similarity score.
Score(kind, qv, v) == IF kind = "Milvus" THEN Dist(qv, v) ELSE 10 - Dist(qv, v)

\* The response of each backend's query call, in the shape of its SDK.
Response(kind, found, qvs) ==
    CASE kind = "Milvus" ->
           [q \in 1..Len(qvs) |->
               [i \in 1..Len(found) |->
                   [id |-> found[i].id,
                    distance |-> Score(kind, qvs[q], found[i].vector),
                    entity |-> [title |-> found[i].title,
                                text |-> found[i].text]]]]
      [] kind = "Pinecone" ->
           [result |-> [hits |->
               [i \in 1..Len(found) |->
                   [id |-> found[i].id,
                    score |-> Score(kind, qvs[1], found[i].vector),
                    fields |-> [title |-> found[i].title,
                                text |-> found[i].text]]]]]
      [] kind = "MongoDB" ->
           [i \in 1..Len(found) |->
               [id |-> found[i].id, title |-> found[i].title,
                text |-> found[i].text,
                score |-> Score(kind, qvs[1], found[i].vector)]]
      [] kind = "QDrant" ->
           [i \in 1..Len(found) |->
               [id |-> found[i].id, metadata |-> [title |-> found[i].title],
                document |-> found[i].text,
                score |-> Score(kind, qvs[1], found[i].vector)]]

RECURSIVE Flatten(_)
Flatten(res) == IF res = <<>> THEN <<>> ELSE Head(res) \o Flatten(Tail(res))

\* The list comprehension each branch of search_documents returns.
\* (variant: only the first hit returned)
NormalizeFirstOnly(kind, response) ==
    LET hits == CASE kind = "Milvus" -> Flatten(response)
                  [] kind = "Pinecone" -> response.result.hits
                  [] OTHER -> response
    IN IF hits = <<>> THEN <<>>
       ELSE IF kind = "Milvus"
            THEN <<<<hits[1].entity.title, hits[1].entity.text, hits[1].distance>>>>
            ELSE IF kind = "Pinecone"
            THEN <<<<hits[1].fields.title, hits[1].fields.text, hits[1].score>>>>
            ELSE IF kind = "MongoDB"
            THEN <<<<hits[1].title, hits[1].text, hits[1].score>>>>
            ELSE <<<<hits[1].metadata.title, hits[1].document, hits[1].score>>>>
Normalize(kind, response) ==
    CASE kind = "Milvus" ->
           LET hits == Flatten(response) IN
           [i \in 1..Len(hits) |->
               <<hits[i].entity.title, hits[i].entity.text, hits[i].distance>>]
      [] kind = "Pinecone" ->
           LET hits == response.result.hits IN
           [i \in 1..Len(hits) |->
               <<hits[i].fields.title, hits[i].fields.text, hits[i].score>>]
      [] kind = "MongoDB" ->
           [i \in 1..Len(response) |->
               <<response[i].title, response[i].text, response[i].score>>]
      [] kind = "QDrant" ->
           [i \in 1..Len(response) |->
               <<response[i].metadata.title, response[i].document,
                 response[i].score>>]

\* search_documents(connection, query, top_k) called by session s; idx is the
\* backend's ranking (one of Rankings, chosen where the call is made), `ok`
\* whether its query call returns rather than raises.
SearchDocuments(s, connection, query, top_k, ok, idx) ==
    LET kind == connection.kind
        entries == stores[StoreOf(connection)]
        qvs == EmbedAll(<<query>>)
        found == [i \in 1..Len(idx) |-> entries[idx[i]]]
    IN /\ kind \in DATABASE_NAMES
       /\ last' = [NoCall EXCEPT
                     !.op = "search", !.s = s, !.db = kind,
                     !.handle = connection, !.query = query, !.top_k = top_k,
                     !.raised = ~ok,
                     !.hits = IF ok THEN found ELSE <<>>,
                     !.result = IF ok
                                THEN Normalize(kind, Response(kind, found, qvs))
                                ELSE <<>>]

SearchCall(s, b, query, top_k, ok) ==
    /\ connections[s][b] # NoHandle
    /\ \E idx \in Rankings(stores[StoreOf(connections[s][b])], Embed(query),
                           SearchLimit(top_k)) :
          SearchDocuments(s, connections[s][b], query, top_k, ok, idx)
    /\ UNCHANGED <<connections, docs, db_choice, stores, pineconeIndex,
                   ctorCalls, createCalls, idgen, indexed>>

Connected(s) == {b \in DATABASE_NAMES : connections[s][b] # NoHandle}

\* The adapter driven directly by one session on one backend, whichever it
\* is: every batch of up to MaxBatch documents, every query and top_k, setups
\* that succeed.  (Stores of different backends share nothing: StoreOf.)
Next ==
    \/ \E b \in DATABASE_NAMES :
          /\ Connected("s1") \subseteq {b}
          /\ GetConnectionCall("s1", b, "none")
    \/ \E b \in DATABASE_NAMES, documents \in SeqsUpTo(Documents, MaxBatch),
          ok \in BOOLEAN :
          IndexCall("s1", b, documents, ok)
    \/ \E b \in DATABASE_NAMES, query \in Queries, top_k \in 0..MaxTopK,
          ok \in BOOLEAN :
          SearchCall("s1", b, query, top_k, ok)

Spec == Init /\ [][Next]_vars

\* The connection registry alone, setups that may raise: one session that
\* connects to every backend, next to a second one that connects to Pinecone
\* (and so may have created the index the first one asks for).
NextConn ==
    \/ \E b \in DATABASE_NAMES :
          \E fail \in FailPoints(b) : GetConnectionCall("s1", b, fail)
    \/ GetConnectionCall("s2", "Pinecone", "none")

SpecConn == Init /\ [][NextConn]_vars

\* Two interface sessions side by side, each on the handles its own
\* get_connection returned and each on one backend.  Every call is one step,
\* the steps of the two sessions interleave freely.  Session s indexes the
\* documents of SessionDocuments(s), one at a time.
SessionDocuments(s) ==
    IF s = "s1" THEN {<<"a.txt", "cats">>} ELSE {<<"b.txt", "cats">>}

NextSessions ==
    \E s \in Sessions :
        \/ \E b \in DATABASE_NAMES :
              /\ Connected(s) \subseteq {b}
              /\ GetConnectionCall(s, b, "none")
        \/ \E b \in DATABASE_NAMES, d \in SessionDocuments(s) :
              IndexCall(s, b, <<d>>, TRUE)
        \/ \E b \in DATABASE_NAMES, top_k \in 1..MaxTopK :
              SearchCall(s, b, "cats", top_k, TRUE)

SpecSessions == Init /\ [][NextSessions]_vars

\* ------------------------------------------------- the Streamlit script
\* Files an uploaded archive may hold: a text file, a file that does not
\* decode as text, and a file whose name has no dot (Path.glob("**/*.*") skips
\* it).
TextFile == [name |-> "a.txt", text |-> "cats", decodes |-> TRUE, dotted |-> TRUE]
BinaryFile == [name |-> "img.png", text |-> "", decodes |-> FALSE, dotted |-> TRUE]
NoDotFile == [name |-> "README", text |-> "cats", decodes |-> TRUE, dotted |-> FALSE]
ArchiveFiles == {TextFile, BinaryFile, NoDotFile}

\* The archives a user uploads: one with a text file among the others, one
\* with no file that is read.
Archives == {<<BinaryFile, NoDotFile, TextFile>>, <<BinaryFile, NoDotFile>>}

\* The uploaded archive is itself written into the directory it is extracted
\* to; whether its bytes decode as text depends on its content.
ZipFile(decodes) ==
    [name |-> "upload.zip", text |-> "PK", decodes |-> decodes, dotted |-> TRUE]

\* What Path(tmpdir).glob("**/*.*") yields: the archive and its members (the
\* directory's order, here the archive first).
Listings ==
    {<<ZipFile(z)>> \o members : z \in BOOLEAN, members \in Archives}

\* The loop over the listing: (path.name, content) of every file that opens
\* and reads as text, the others skipped.
RECURSIVE ReadDocs(_)
ReadDocs(listing) ==
    IF listing = <<>> THEN <<>>
    ELSE LET f == Head(listing) IN
         (IF f.dotted /\ f.decodes THEN <<<<f.name, f.text>>>> ELSE <<>>)
             \o ReadDocs(Tail(listing))

NoUpload == <<>>

\* st.session_state.docs after the upload block; NoUpload is a run with no
\* file in the uploader.
AfterUpload(old, listing) == IF listing = NoUpload THEN old ELSE ReadDocs(listing)

\* `if st.session_state.docs: if st.button("Index Documents"):`
\* (variant: the button acted on without looking at the list)
ShouldIndexAnyList(documents, click) == click = "index"
ShouldIndex(documents, click) == documents # <<>> /\ click = "index"

\* `if st.button("Search"): if search_query:`
ShouldSearch(click, query) == click = "search" /\ query # ""

\* top_k: int = 3, the value the script's search uses
DefaultTopK == 3

\* One run of the script in session s: the uploader holds `listing`, the
\* selectbox db, at most one button was clicked, the text input holds query.
\* A call that raises ends the run.
Rerun(s, listing, db, click, query, fail, ok) ==
    LET documents == AfterUpload(docs[s], listing)
        r == GetConnection(s, db, fail)
    IN /\ GetConnectionEnabled(s, db, fail)
       /\ r.raised => ok
       /\ docs' = [docs EXCEPT ![s] = documents]
       /\ db_choice' = [db_choice EXCEPT ![s] = db]
       /\ Connect(s, db, r)
       /\ IF r.raised
          THEN /\ last' = ConnectionCall(s, db, r)
               /\ UNCHANGED <<stores, idgen, indexed>>
          ELSE IF ShouldIndex(documents, click)
          THEN /\ TotalRecords + Len(documents) <= MaxRecords
               /\ db = "Pinecone" => idgen.oid + Len(documents) <= MaxRecords
               /\ db = "QDrant" => idgen.uuid + Len(documents) <= MaxRecords
               /\ IndexDocuments(s, r.handle, documents, ok)
          ELSE IF ShouldSearch(click, query)
          THEN /\ \E idx \in Rankings(stores[StoreOf(r.handle)], Embed(query),
                                      SearchLimit(DefaultTopK)) :
                     SearchDocuments(s, r.handle, query, DefaultTopK, ok, idx)
               /\ UNCHANGED <<stores, idgen, indexed>>
          ELSE /\ ok
               /\ last' = ConnectionCall(s, db, r)
               /\ UNCHANGED <<stores, idgen, indexed>>

\* One browser session: every upload, selection, click and query; setups and
\* backend calls return (SpecConn and Spec have those that raise); the user
\* moves between two backends, whichever they are.
NextUI ==
    \E listing \in Listings \cup {NoUpload}, db \in DATABASE_NAMES :
        /\ Cardinality(Connected("s1") \cup {db}) <= 2
        /\ \/ Rerun("s1", listing, db, "none", "", "none", TRUE)
           \/ Rerun("s1", listing, db, "index", "", "none", TRUE)
           \/ \E query \in {"", "cats"} :
                 Rerun("s1", listing, db, "search", query, "none", TRUE)

SpecUI == Init /\ [][NextUI]_vars

\* ================================================================ claims
CallBy(s, b) == last.op = "get_connection" /\ last.s = s /\ last.db = b

\* C1 (as stated): whenever get_connection(b) returns, it returns the one
\* handle the session holds for b, and the setup of b has run exactly once:
\* one client construction and, for Milvus and Pinecone, one collection or
\* index creation.
C1_SetupExactlyOnce ==
    \A s \in Sessions, b \in DATABASE_NAMES :
        (CallBy(s, b) /\ ~last.raised) =>
            /\ last.handle = connections[s][b]
            /\ ctorCalls[s][b] = 1
            /\ b \in {"Milvus", "Pinecone"} => createCalls[s][b] = 1

\* C1 (amended): a successful get_connection(b) returns the handle the session
\* holds for b, and once the session holds a handle for b no later call
\* replaces it or runs any setup side effect for b again.
C1_CachedHandleIsReused ==
    [][\A s \in Sessions, b \in DATABASE_NAMES :
          /\ (last'.op = "get_connection" /\ last'.s = s /\ last'.db = b
                /\ ~last'.raised) =>
                 /\ last'.handle # NoHandle
                 /\ last'.handle = connections'[s][b]
          /\ connections[s][b] # NoHandle =>
                 /\ connections'[s][b] = connections[s][b]
                 /\ ctorCalls'[s][b] = ctorCalls[s][b]
                 /\ createCalls'[s][b] = createCalls[s][b]]_vars

\* C1 witness: a call answered from the cache, for a backend whose first
\* setup attempt had raised.
C1_Witness ==
    /\ last.op = "get_connection" /\ last.fromCache
    /\ ctorCalls[last.s][last.db] = 2

\* C9: a get_connection(b) whose setup raises makes one construction attempt
\* and no more, leaves the whole connection cache as it was (no handle for b,
\* the other backends' handles untouched), and a later get_connection(b)
\* finding no handle runs the setup again.
C9_FailedSetupStoresNothing ==
    [][\A s \in Sessions, b \in DATABASE_NAMES :
          (last'.op = "get_connection" /\ last'.s = s /\ last'.db = b) =>
              /\ last'.raised =>
                    /\ connections' = connections
                    /\ connections'[s][b] = NoHandle
                    /\ last'.handle = NoHandle
                    /\ ctorCalls'[s][b] = ctorCalls[s][b] + 1
                    /\ createCalls'[s][b] <= createCalls[s][b] + 1
              /\ connections[s][b] = NoHandle =>
                    ctorCalls'[s][b] = ctorCalls[s][b] + 1]_vars

\* C9 witness: after a setup of b that raised, a later call has set b up
\* again and stored its handle, while another backend's handle is held.
C9_Witness ==
    /\ last.op = "get_connection" /\ ~last.raised /\ ~last.fromCache
    /\ ctorCalls[last.s][last.db] = 2
    /\ connections[last.s][last.db] = last.handle
    /\ \E b \in DATABASE_NAMES \ {last.db} : connections[last.s][b] # NoHandle

\* C2 (as stated): a search with top_k >= 1 that returns, returns the title
\* of every document that an index_documents call on the same backend was
\* given before and whose text is the query.
TitlesIn(result) == {result[i][1] : i \in 1..Len(result)}
Stored == stores[StoreOf(last.handle)]
IndexedBefore == indexed[StoreOf(last.handle)]

C2_OwnTextFindsTitle ==
    (last.op = "search" /\ ~last.raised /\ last.top_k >= 1) =>
        \A d \in IndexedBefore :
            d[2] = last.query => d[1] \in TitlesIn(last.result)

\* C2 (amended): a search with top_k >= 1 that returns, returns the title of
\* every document indexed on the same backend before whose text is the
\* query, provided the backend holds at most top_k records with the query's
\* embedding; with more of them the backend chooses which top_k it returns.
SameVector(entries, v) == {i \in 1..Len(entries) : entries[i].vector = v}

C2_OwnTextFindsTitleUnlessCrowded ==
    (last.op = "search" /\ ~last.raised /\ last.top_k >= 1
       /\ Cardinality(SameVector(Stored, Embed(last.query))) <= last.top_k) =>
        \A d \in IndexedBefore :
            d[2] = last.query => d[1] \in TitlesIn(last.result)

\* C2 witness: a search for an indexed document's text that returned it next
\* to a record of another text.
C2_Witness ==
    /\ last.op = "search" /\ ~last.raised /\ last.top_k >= 1
    /\ Cardinality(SameVector(Stored, Embed(last.query))) <= last.top_k
    /\ \E d, e \in IndexedBefore :
          /\ d[2] = last.query
          /\ e[2] # last.query
          /\ d[1] \in TitlesIn(last.result)

\* C3: no two records of one store share an identifier.
C3_IdentifiersUnique ==
    \A k \in StoreNames :
        \A i, j \in 1..Len(stores[k]) :
            i # j => stores[k][i].id # stores[k][j].id

\* C4: index_documents with an empty batch makes no write call and raises
\* nothing.
C4_EmptyBatchIsNoOp ==
    (last.op = "index" /\ last.documents = <<>>) =>
        /\ last.writes = <<>>
        /\ ~last.raised

\* C5: on Milvus and MongoDB index_documents makes one write call with one
\* record per document, record i carrying document i's title and text and
\* the embedding of document i's text; when the call returns, the store has
\* grown by exactly those records, in order.
RecordVector(kind, rec) == IF kind = "Milvus" THEN rec.vector ELSE rec.embedding

C5_OneRecordPerDocumentInOrder ==
    [][(last'.op = "index" /\ last'.db \in {"Milvus", "MongoDB"}) =>
          LET n == Len(last'.documents)
              k == StoreOf(last'.handle)
          IN /\ Len(last'.writes) = 1
             /\ Len(last'.writes[1]) = n
             /\ \A i \in 1..n :
                   /\ last'.writes[1][i].title = last'.documents[i][1]
                   /\ last'.writes[1][i].text = last'.documents[i][2]
                   /\ RecordVector(last'.db, last'.writes[1][i])
                        = Embed(last'.documents[i][2])
             /\ ~last'.raised =>
                   /\ Len(stores'[k]) = Len(stores[k]) + n
                   /\ \A i \in 1..n :
                         /\ stores'[k][Len(stores[k]) + i].title
                              = last'.documents[i][1]
                         /\ stores'[k][Len(stores[k]) + i].vector
                              = Embed(last'.documents[i][2])]_vars

\* C5 witness: a Milvus or MongoDB write of two documents with different
\* embeddings that returned.
C5_Witness ==
    /\ last.op = "index" /\ last.db \in {"Milvus", "MongoDB"} /\ ~last.raised
    /\ Len(last.documents) = 2
    /\ Embed(last.documents[1][2]) # Embed(last.documents[2][2])
    /\ Len(Stored) >= 2

C7_OneTuplePerHitInOrder ==
    (last.op = "search" /\ ~last.raised) =>
        /\ Len(last.result) = Len(last.hits)
        /\ \A i \in 1..Len(last.hits) :
              last.result[i] = <<last.hits[i].title, last.hits[i].text,
                                 Score(last.db, Embed(last.query),
                                       last.hits[i].vector)>>

\* C7 witness: a search whose backend returned two hits with different
\* scores.
C7_Witness ==
    /\ last.op = "search" /\ ~last.raised /\ Len(last.hits) = 2
    /\ last.result[1][3] # last.result[2][3]

\* C8 (as stated): the records a session indexes are never returned to the
\* other session's searches, and never share a store and an identifier with
\* a record of the other session.
C8_SessionsFullyIsolated ==
    /\ last.op = "search" =>
          \A i \in 1..Len(last.hits) : last.hits[i].writer = last.s
    /\ \A k \in StoreNames :
          \A i, j \in 1..Len(stores[k]) :
              stores[k][i].writer # stores[k][j].writer =>
                  stores[k][i].id # stores[k][j].id

\* C8 (amended): the sessions share no adapter state: every handle a session
\* holds was constructed by that session, so no handle is held by both.  The
\* stores behind the handles are separate for QDrant only, whose searches
\* return nothing but the searching session's own records; the Milvus,
\* Pinecone and MongoDB handles of all sessions reach one store each.
C8_SeparateHandlesQDrantIsolated ==
    /\ \A s \in Sessions, b \in DATABASE_NAMES :
          connections[s][b] # NoHandle =>
              /\ connections[s][b].owner = s
              /\ connections[s][b].kind = b
    /\ (last.op = "search" /\ last.db = "QDrant") =>
          \A i \in 1..Len(last.hits) : last.hits[i].writer = last.s

\* C8 witness: both sessions hold a QDrant handle, both have indexed a
\* document on it, and one of them has searched and got a hit.
C8_Witness ==
    /\ last.op = "search" /\ last.db = "QDrant" /\ Len(last.hits) >= 1
    /\ \A s \in Sessions :
          /\ connections[s]["QDrant"] # NoHandle
          /\ Len(stores[StoreOf(connections[s]["QDrant"])]) >= 1

\* C10: in the script, every index_documents call is made with the session's
\* document list, which is then non-empty and holds only files that were read
\* as text, and on the handle the session holds for the selected backend.
C10_IndexOnlyNonEmptyOnSelected ==
    last.op = "index" =>
        /\ last.documents # <<>>
        /\ last.documents = docs[last.s]
        /\ last.handle = connections[last.s][db_choice[last.s]]
        /\ last.db = db_choice[last.s]
        /\ \A i \in 1..Len(last.documents) :
              \E f \in ArchiveFiles \cup {ZipFile(TRUE)} :
                  /\ f.decodes /\ f.dotted
                  /\ last.documents[i] = <<f.name, f.text>>

\* C10 witness: an index call on a backend other than the one selected first,
\* made while another backend's handle is held too.
C10_Witness ==
    /\ last.op = "index" /\ ~last.raised
    /\ last.db # "Milvus"
    /\ Cardinality(Connected(last.s)) >= 2
====
